---- MODULE Spec2Model ----
(***************************************************************************)
(* Worker shift scheduling (planning/workers.py, planning/workers_st.py).  *)
(*                                                                         *)
(* build_model(workers, stations) produces a MILP over the binary          *)
(* variables works[worker, station, day, shift], the binaries              *)
(* needed[worker] and the reals total_hours[worker], deviation[worker].    *)
(* The "Run Optimization" handler builds the model, hands it to the        *)
(* external solver, then decodes the variable values into the roster.      *)
(*                                                                         *)
(* The solver is external: its result is any value map it may return.      *)
(* The Branch action walks the solver's search over the works variables    *)
(* (one (worker, day) row at a time, every 0/1 pattern of the row tried,   *)
(* rows taken in list order so that each value map is reached once); the   *)
(* constraint rows of the model are the only thing that prunes it.         *)
(*                                                                         *)
(* model.works is kept as the set of its index tuples whose variable is 1  *)
(* (every other works variable is 0): Val reads one variable.              *)
(*                                                                         *)
(* Hours are kept exact: average_hours = |stations|*7*2 / |workers| is a   *)
(* ratio, so deviation[w] and the objective are carried multiplied by      *)
(* |workers| (Scaled), which makes them integers.                          *)
(***************************************************************************)
EXTENDS Integers, Sequences, FiniteSets, TLC

\* ------------------------------ bounds ---------------------------------
\* |workers| * |stations| of the configurations explored
MaxPairs == 3
\* how far from |total_hours - average_hours| (in 1/|workers| hours) the
\* solver's value of deviation[w] may lie
DevSlack == 1
\* number of workers whose deviation[w] the solver leaves off that value
MaxLoose == 1
\* number of (worker, day) rows the solver's search sets to a non-zero pattern
MaxRows == 4

\* ------------------------- parameters and sets -------------------------
days == <<"Mon", "Tue", "Wed", "Thu", "Fri", "Sat", "Sun">>
shifts == <<"day", "night">>
\* default worker names f"W{i}"
WorkerNames == <<"W1", "W2", "W3", "W4", "W5", "W6">>
\* objective coefficient of sum(deviation): 1 in workers_st.py, 10 in workers.py
FairnessWeights == {1, 10}
\* sum(works[..] for worker in workers) <= 2
StationCapacityBound == 2
\* sum over two adjacent days <= 2
RestBound == 2

VARIABLES
    pc,              \* position of the run: "idle", "built", "solving", "done", "failed"
    workers,         \* list of worker names
    stations,        \* list of station indices
    fairness_weight, \* coefficient of the deviation term of the objective
    model,           \* components of the ConcreteModel constructed so far
    works,           \* the (w, s, d, sh) with model.works[w, s, d, sh] = 1
    needed,          \* value of model.needed[w]
    total_hours,     \* value of model.total_hours[w]
    deviation,       \* value of model.deviation[w], times |workers|; empty: no value
    solves,          \* number of opt.solve calls of the run
    status,          \* what the solver returned
    loaded,          \* TRUE when the solver loaded a solution into the variables
    error,           \* the exception that ended the run, "" if none
    workers_needed,  \* get_workers_needed(model, workers)
    week_table,      \* get_work_table(model, workers, stations)
    worker_schedule, \* generate_worker_schedule(model, workers, stations)
    report           \* what the handler told the user

vars == <<pc, workers, stations, fairness_weight, model, works, needed,
          total_hours, deviation, solves, status, loaded, error,
          workers_needed, week_table, worker_schedule, report>>

\* ------------------------------ helpers --------------------------------
Range(s) == {s[i] : i \in DOMAIN s}

RECURSIVE Sum(_, _)
\* sum(f[1..n]) of a sequence of numbers
Sum(f, n) == IF n = 0 THEN 0 ELSE f[n] + Sum(f, n - 1)

NumDays == Len(days)
NumShifts == Len(shifts)

\* the index set of model.works
Cells == {<<w, s, d, sh>> : w \in Range(workers), s \in Range(stations),
                            d \in Range(days), sh \in Range(shifts)}

\* days[i + 1 if i < len(days) - 1 else 0], on 1-based positions
NextDay(i) == IF i < NumDays THEN i + 1 ELSE 1

\* works[w, s, d, sh].value
Val(wk, w, s, d, sh) == IF <<w, s, d, sh>> \in wk THEN 1 ELSE 0

\* the sums of 0/1 variables below count the variables that are 1
\* sum(works[worker, station, day, shift] for station in stations)
OverStations(wk, w, d, sh) ==
    Cardinality({c \in wk : c[1] = w /\ c[3] = d /\ c[4] = sh})

\* sum(works[worker, station, day, shift] for station in stations for shift in shifts)
OnDay(wk, w, d) ==
    Cardinality({c \in wk : c[1] = w /\ c[3] = d})

\* sum(works[worker, station, day, shift] for station ... for day ... for shift ...)
TotalAssignments(wk, w) ==
    Cardinality({c \in wk : c[1] = w})

\* sum(works[worker, station, day, shift] for worker in workers)
OverWorkers(wk, s, d, sh) ==
    Cardinality({c \in wk : c[2] = s /\ c[3] = d /\ c[4] = sh})

\* a quantity in hours, carried times |workers|
Scaled(h) == h * Len(workers)

\* average_hours = len(stations) * len(days) * len(shifts) / len(workers), scaled
AverageHoursScaled == Len(stations) * NumDays * NumShifts

\* max_possible_shifts = len(stations) * len(days) * len(shifts)
max_possible_shifts == Len(stations) * NumDays * NumShifts

\* --------------------------- the MILP rows -----------------------------
\* A value map v is a record [works, needed, total_hours, deviation].

\* within=Binary / within=NonNegativeReals
DomainsMutBinaryDeviation(v) ==
    /\ \A w \in Range(workers) :
          /\ v.needed[w] \in {0, 1}
          /\ v.total_hours[w] >= 0
          /\ v.deviation[w] \in {0, Scaled(1)}
    /\ \A c \in v.works : /\ c[1] \in Range(workers)
                          /\ c[2] \in Range(stations)
                          /\ c[3] \in Range(days)
                          /\ c[4] \in Range(shifts)
Domains(v) ==
    /\ \A w \in Range(workers) :
          /\ v.needed[w] \in {0, 1}
          /\ v.total_hours[w] >= 0
          /\ v.deviation[w] >= 0
    /\ \A c \in v.works : /\ c[1] \in Range(workers)
                          /\ c[2] \in Range(stations)
                          /\ c[3] \in Range(days)
                          /\ c[4] \in Range(shifts)

\* total_hours[worker] == sum(works[worker, station, day, shift] ...)
HoursAccounting(v) ==
    \A w \in Range(workers) : v.total_hours[w] = TotalAssignments(v.works, w)

\* (1) A worker cannot work in more than one station for the same shift
ShiftExclusivityMutTwo(v) ==
    \A d \in Range(days), sh \in Range(shifts), w \in Range(workers) :
        OverStations(v.works, w, d, sh) <= 2
ShiftExclusivity(v) ==
    \A d \in Range(days), sh \in Range(shifts), w \in Range(workers) :
        OverStations(v.works, w, d, sh) <= 1

\* (2) Day and night shift must be paired for a worker at a given station and day
DayNightPairingMutLeq(v) ==
    \A s \in Range(stations), d \in Range(days), w \in Range(workers) :
        Val(v.works, w, s, d, "day") <= Val(v.works, w, s, d, "night")
DayNightPairing(v) ==
    \A s \in Range(stations), d \in Range(days), w \in Range(workers) :
        Val(v.works, w, s, d, "day") = Val(v.works, w, s, d, "night")

\* (3) A worker cannot work two consecutive days
RestRuleMutNoWrap(v) ==
    \A i \in 1..(NumDays - 1), w \in Range(workers) :
        OnDay(v.works, w, days[i]) + OnDay(v.works, w, days[i + 1]) <= RestBound
RestRuleMutFour(v) ==
    \A i \in 1..NumDays, w \in Range(workers) :
        OnDay(v.works, w, days[i]) + OnDay(v.works, w, days[NextDay(i)]) <= 4
RestRule(v) ==
    \A i \in 1..NumDays, w \in Range(workers) :
        OnDay(v.works, w, days[i]) + OnDay(v.works, w, days[NextDay(i)]) <= RestBound

\* (3bis) sum(works[worker, station, day, shift] for worker in workers) <= 2
StationCapacityMutThree(v) ==
    \A s \in Range(stations), d \in Range(days), sh \in Range(shifts) :
        OverWorkers(v.works, s, d, sh) <= 3
StationCapacity(v) ==
    \A s \in Range(stations), d \in Range(days), sh \in Range(shifts) :
        OverWorkers(v.works, s, d, sh) <= StationCapacityBound

\* (4) deviation[w] >= total_hours[w] - average_hours
\*     deviation[w] >= average_hours - total_hours[w]
DeviationLinearizationMutOneSided(v) ==
    \A w \in Range(workers) :
        v.deviation[w] >= Scaled(v.total_hours[w]) - AverageHoursScaled
DeviationLinearization(v) ==
    \A w \in Range(workers) :
        /\ v.deviation[w] >= Scaled(v.total_hours[w]) - AverageHoursScaled
        /\ v.deviation[w] >= AverageHoursScaled - Scaled(v.total_hours[w])

\* (5) needed[worker] * max_possible_shifts >= total_assignments
NeededFlagMutReversed(v) ==
    \A w \in Range(workers) :
        v.needed[w] * max_possible_shifts <= TotalAssignments(v.works, w)
NeededFlag(v) ==
    \A w \in Range(workers) :
        v.needed[w] * max_possible_shifts >= TotalAssignments(v.works, w)

\* the rows of model.constraints that mention only works and total_hours
WorksRows(v) ==
    /\ DayNightPairing(v)
    /\ ShiftExclusivity(v)
    /\ RestRule(v)
    /\ StationCapacity(v)
    /\ HoursAccounting(v)

\* the rows that mention needed or deviation, and the variable domains
FlagRows(v) ==
    /\ DeviationLinearization(v)
    /\ NeededFlag(v)
    /\ Domains(v)

\* v satisfies every row of model.constraints and every variable domain
Feasible(v) ==
    /\ WorksRows(v)
    /\ FlagRows(v)

\* model.obj, times |workers|: sum(works) - fairness_weight * sum(deviation);
\* the sum of all works variables is the number of them that are 1
ObjectiveMutNoDeviation(v) == Scaled(Cardinality(v.works))
Objective(v) ==
    Scaled(Cardinality(v.works))
    - fairness_weight * Sum([i \in 1..Len(workers) |-> v.deviation[workers[i]]],
                            Len(workers))

\* the variable values currently held by the model
Values == [works |-> works, needed |-> needed,
           total_hours |-> total_hours, deviation |-> deviation]

\* |total_hours[w] - average_hours|, times |workers|
AbsDeviation(v, w) ==
    IF Scaled(v.total_hours[w]) >= AverageHoursScaled
    THEN Scaled(v.total_hours[w]) - AverageHoursScaled
    ELSE AverageHoursScaled - Scaled(v.total_hours[w])

\* -------------------------- result extraction --------------------------
\* [worker for worker in workers if model.needed[worker].value == 1]
get_workers_needed(v) == SelectSeq(workers, LAMBDA w : v.needed[w] = 1)

\* schedule[station][day][shift]: the workers with works == 1, in list order
get_work_tableMutAnyStation(v) ==
    [s \in Range(stations) |-> [d \in Range(days) |-> [sh \in Range(shifts) |->
        SelectSeq(workers, LAMBDA w : OverStations(v.works, w, d, sh) >= 1)]]]
get_work_table(v) ==
    [s \in Range(stations) |-> [d \in Range(days) |-> [sh \in Range(shifts) |->
        SelectSeq(workers, LAMBDA w : Val(v.works, w, s, d, sh) = 1)]]]

\* the (station, day, shift) triples in the order of the three nested loops
Slots ==
    [k \in 1..(Len(stations) * NumDays * NumShifts) |->
        <<stations[((k - 1) \div (NumDays * NumShifts)) + 1],
          days[(((k - 1) % (NumDays * NumShifts)) \div NumShifts) + 1],
          shifts[((k - 1) % NumShifts) + 1]>>]

\* worker_schedule[worker]: one entry "Station s - day shift" per assigned
\* slot, kept as the triple the string is formatted from
generate_worker_schedule(v) ==
    [w \in Range(workers) |->
        SelectSeq(Slots, LAMBDA t : Val(v.works, w, t[1], t[2], t[3]) = 1)]

\* ------------------------------ the solver -----------------------------
\* position of the (worker, day) row in list order, and back
RowWorker(p) == workers[((p - 1) \div NumDays) + 1]
RowDay(p) == days[((p - 1) % NumDays) + 1]
NumRows == Len(workers) * NumDays
RowOf(c) ==
    CHOOSE p \in 1..NumRows : RowWorker(p) = c[1] /\ RowDay(p) = c[3]

\* the last row of wk that holds a 1 (0: none)
LastRow(wk) ==
    LET used == {RowOf(c) : c \in wk}
    IN IF used = {} THEN 0 ELSE CHOOSE p \in used : \A q \in used : q <= p

\* initialize=0
InitialWorks == {}
InitialPerWorker == [w \in Range(workers) |-> 0]

\* wk with the variables of row, a set of (station, shift), set to 1 in the
\* all-zero row (w, d)
WithRow(wk, w, d, row) == wk \cup {<<w, c[1], d, c[2]>> : c \in row}

HoursOf(wk) == [w \in Range(workers) |-> TotalAssignments(wk, w)]

\* What the solver's optimum satisfies, as far as deviation goes: no value
\* map that differs from v in one deviation[w] only satisfies the rows with a
\* larger objective. (Every optimum of the model satisfies this; value maps
\* that are not optimal in works satisfy it too.)
NoBetterDeviation(v) ==
    LET obj == Objective(v)
    IN \A w \in Range(workers) :
       \A x \in (AbsDeviation(v, w) - DevSlack)..(AbsDeviation(v, w) + DevSlack) :
           LET a == [v EXCEPT !.deviation[w] = x]
           IN Objective(a) <= obj \/ ~FlagRows(a)

\* the values the solver may hand back for needed and deviation, given works:
\* every 0/1 pattern of needed, and deviations within DevSlack of
\* |total_hours - average_hours| on either side for at most MaxLoose workers
ReturnedNeeded == [Range(workers) -> {0, 1}]
ReturnedDeviation ==
    {[w \in Range(workers) |-> AbsDeviation(Values, w) + off[w]] :
        off \in {f \in [Range(workers) -> (0 - DevSlack)..DevSlack] :
                    Cardinality({w \in Range(workers) : f[w] # 0}) <= MaxLoose}}
Returned(nd, dv) ==
    [works |-> works, total_hours |-> total_hours, needed |-> nd, deviation |-> dv]

\* ------------------------------- actions -------------------------------
\* The arguments of build_model. The handler passes the names parsed from the
\* text input (none, when the input is empty) and list(range(num_stations + 1));
\* workers.py fixes ten workers and list(range(4)). Init draws the two lists
\* from all lists f"W1".."Wn" and 0..m-1 within MaxPairs, and the objective
\* weight from the two values the code uses.
Init ==
    /\ pc = "idle"
    /\ \E n \in 0..MaxPairs, m \in 1..MaxPairs :
          /\ n * m <= MaxPairs
          /\ workers = SubSeq(WorkerNames, 1, n)
          /\ stations = [i \in 1..m |-> i - 1]
    /\ fairness_weight \in FairnessWeights
    /\ model = {}
    /\ works = {}
    /\ needed = << >>
    /\ total_hours = << >>
    /\ deviation = << >>
    /\ solves = 0
    /\ status = "none"
    /\ loaded = FALSE
    /\ error = ""
    /\ workers_needed = << >>
    /\ week_table = << >>
    /\ worker_schedule = << >>
    /\ report = ""

\* build_model(workers, stations); with no worker the division of line 46
\* raises after the four Var components were attached
BuildModel ==
    /\ pc = "idle"
    /\ IF workers = << >>
       THEN /\ model' = {"works", "needed", "total_hours", "deviation"}
            /\ error' = "ZeroDivisionError"
            /\ pc' = "failed"
            /\ UNCHANGED <<works, needed, total_hours>>
       ELSE /\ model' = {"works", "needed", "total_hours", "deviation",
                         "obj", "constraints"}
            /\ works' = InitialWorks
            /\ needed' = InitialPerWorker
            /\ total_hours' = InitialPerWorker
            /\ pc' = "built"
            /\ UNCHANGED error
    /\ UNCHANGED <<workers, stations, fairness_weight, deviation, solves, status,
                   loaded, workers_needed, week_table, worker_schedule, report>>

\* solve_model(model): opt.solve(model, tee=True) is entered
InvokeSolver ==
    /\ pc = "built"
    /\ pc' = "solving"
    /\ solves' = solves + 1
    /\ UNCHANGED <<workers, stations, fairness_weight, model, works, needed,
                   total_hours, deviation, status, loaded, error,
                   workers_needed, week_table, worker_schedule, report>>

\* the solver fixes one more (worker, day) row of works to a 0/1 pattern that
\* the rows of the model allow
Branch ==
    /\ pc = "solving"
    /\ Cardinality({RowOf(c) : c \in works}) < MaxRows
    /\ \E p \in (LastRow(works) + 1)..NumRows :
       \E row \in SUBSET (Range(stations) \X Range(shifts)) :
          LET wk == WithRow(works, RowWorker(p), RowDay(p), row)
              th == HoursOf(wk)
          IN /\ row # {}
             /\ WorksRows([works |-> wk, total_hours |-> th])
             /\ works' = wk
             /\ total_hours' = th
    /\ UNCHANGED <<pc, workers, stations, fairness_weight, model, needed,
                   deviation, solves, status, loaded, error,
                   workers_needed, week_table, worker_schedule, report>>

\* the rest of the handler once solve_model returned: the three extractions
\* and st.success("Optimization complete!")
ExtractAndReport(v) ==
    /\ workers_needed' = get_workers_needed(v)
    /\ week_table' = get_work_table(v)
    /\ worker_schedule' = generate_worker_schedule(v)
    /\ report' = "Optimization complete!"
    /\ pc' = "done"

\* the solver proves optimality and loads the optimum: a value map with
\* Feasible and NoBetterDeviation (the works rows are checked once, the needed
\* row as soon as needed is chosen)
SolveOptimal ==
    /\ pc = "solving"
    /\ WorksRows(Values)
    /\ \E nd \in ReturnedNeeded :
          /\ NeededFlag(Returned(nd, deviation))
          /\ \E dv \in ReturnedDeviation :
                /\ FlagRows(Returned(nd, dv))
                /\ NoBetterDeviation(Returned(nd, dv))
                /\ needed' = nd
                /\ deviation' = dv
                /\ ExtractAndReport(Returned(nd, dv))
    /\ status' = "Optimal"
    /\ loaded' = TRUE
    /\ UNCHANGED <<workers, stations, fairness_weight, model, works,
                   total_hours, solves, error>>

\* the time limit (sec = 10) ends the search and the incumbent is loaded: a
\* value map with Feasible
SolveIncumbent ==
    /\ pc = "solving"
    /\ WorksRows(Values)
    /\ \E nd \in ReturnedNeeded :
          /\ NeededFlag(Returned(nd, deviation))
          /\ \E dv \in ReturnedDeviation :
                /\ FlagRows(Returned(nd, dv))
                /\ needed' = nd
                /\ deviation' = dv
                /\ ExtractAndReport(Returned(nd, dv))
    /\ status' = "TimedOut"
    /\ loaded' = TRUE
    /\ UNCHANGED <<workers, stations, fairness_weight, model, works,
                   total_hours, solves, error>>

\* the time limit ends the search before any incumbent: solve_model returns
\* the results object, the variables keep their initial values
SolveNoSolution ==
    /\ pc = "solving"
    /\ works = InitialWorks
    /\ status' = "TimedOut"
    /\ loaded' = FALSE
    /\ ExtractAndReport(Values)
    /\ UNCHANGED <<workers, stations, fairness_weight, model, works, needed,
                   total_hours, deviation, solves, error>>

\* the solver cannot be run: opt.solve raises and the handler is left
SolveError ==
    /\ pc = "solving"
    /\ works = InitialWorks
    /\ status' = "Error"
    /\ error' = "SolverError"
    /\ pc' = "failed"
    /\ UNCHANGED <<workers, stations, fairness_weight, model, works, needed,
                   total_hours, deviation, solves, loaded,
                   workers_needed, week_table, worker_schedule, report>>

Next ==
    \/ BuildModel
    \/ InvokeSolver
    \/ Branch
    \/ SolveOptimal
    \/ SolveIncumbent
    \/ SolveNoSolution
    \/ SolveError

Spec == Init /\ [][Next]_vars

\* ------------------------------ properties -----------------------------
\* the run ended with a solution loaded into the model and decoded
Solved == pc = "done" /\ loaded

\* the cyclic successor of days[i]
Successor(i) == days[(i % NumDays) + 1]

\* the entries of worker_schedule[w] that fall on day d
EntriesOn(w, d) == Len(SelectSeq(worker_schedule[w], LAMBDA t : t[2] = d))

\* w is listed in some cell of week_table on day d
Listed(w, d) ==
    \E s \in Range(stations), sh \in Range(shifts) :
        \E k \in 1..Len(week_table[s][d][sh]) : week_table[s][d][sh][k] = w

\* C1: in every solved schedule, for every worker and every day, the
\* worker's assignments on that day and on its cyclic successor (Sun -> Mon
\* included) sum to at most 2, and the worker is not assigned on both days.
C1_RestRule ==
    Solved =>
        \A w \in Range(workers), i \in 1..NumDays :
            /\ EntriesOn(w, days[i]) + EntriesOn(w, Successor(i)) <= 2
            /\ ~(Listed(w, days[i]) /\ Listed(w, Successor(i)))

\* C1 witness: a worker is assigned on Sun, the day whose successor is Mon,
\* and on another day
C1_Witness ==
    /\ Solved
    /\ \E w \in Range(workers) : Listed(w, "Sun") /\ Listed(w, "Fri")

\* C2: in every solved schedule, for every (worker, day, shift) at most one
\* station has works = 1, and at most one station's roster cell lists the
\* worker.
C2_ShiftExclusivity ==
    Solved =>
        \A w \in Range(workers), d \in Range(days), sh \in Range(shifts) :
            /\ Cardinality({s \in Range(stations) : <<w, s, d, sh>> \in works}) <= 1
            /\ Cardinality({s \in Range(stations) :
                               \E k \in 1..Len(week_table[s][d][sh]) :
                                   week_table[s][d][sh][k] = w}) <= 1

\* C2 witness: a worker is listed at a station while a second station exists
C2_Witness ==
    /\ Solved
    /\ Len(stations) >= 2
    /\ \E w \in Range(workers), d \in Range(days) : Listed(w, d)

\* C3: in every solved schedule, for every (worker, station, day) the day
\* and the night variable are equal.
C3_Pairing ==
    Solved =>
        \A w \in Range(workers), s \in Range(stations), d \in Range(days) :
            (<<w, s, d, "day">> \in works) <=> (<<w, s, d, "night">> \in works)

\* C3 witness: a worker holds both shifts of a station-day
C3_Witness ==
    /\ Solved
    /\ \E w \in Range(workers), s \in Range(stations), d \in Range(days) :
          <<w, s, d, "day">> \in works /\ <<w, s, d, "night">> \in works

HoursGap(w) ==
    LET h == Len(worker_schedule[w]) * Len(workers)
        a == Len(stations) * 7 * 2
    IN IF h >= a THEN h - a ELSE a - h

\* C5: in every optimal solution, deviation[w] equals
\* |total_hours[w] - average_hours| exactly, for every worker.
C5_DeviationTight ==
    (pc = "done" /\ status = "Optimal") =>
        \A w \in Range(workers) : deviation[w] = HoursGap(w)

\* C5 witness: an optimum with a worker above zero hours and a non-zero
\* deviation, under the weight of workers.py
C5_Witness ==
    /\ pc = "done"
    /\ status = "Optimal"
    /\ fairness_weight = 10
    /\ \E w \in Range(workers) : total_hours[w] > 0 /\ deviation[w] > 0

\* C6: in every solved schedule, every worker with an assignment has
\* needed = 1 and is in the list of get_workers_needed.
C6_NeededCoversRoster ==
    Solved =>
        \A w \in Range(workers) :
            (\E d \in Range(days) : Listed(w, d)) =>
                /\ needed[w] = 1
                /\ \E k \in 1..Len(workers_needed) : workers_needed[k] = w

\* C6 witness: one worker is assigned and needed, another has no assignment
\* and is reported needed all the same
C6_Witness ==
    /\ Solved
    /\ \E w \in Range(workers) :
          (\E d \in Range(days) : Listed(w, d)) /\ needed[w] = 1
    /\ \E w \in Range(workers) :
          /\ \A d \in Range(days) : ~Listed(w, d)
          /\ \E k \in 1..Len(workers_needed) : workers_needed[k] = w

\* C7 (as claimed): a run with an empty worker list ends in
\* InvalidConfiguration, detected before anything of the model is built, and
\* the solver is never invoked.
C7_ConfigurationRejected ==
    (workers = << >> /\ pc # "idle") =>
        /\ pc = "failed"
        /\ error = "InvalidConfiguration"
        /\ model = {}
        /\ solves = 0

\* C8 (as claimed): a run makes exactly one solve attempt, and when the
\* solver's status is Infeasible, Error, or TimedOut without an incumbent the
\* run does not report success with an extracted roster.
C8_StatusPropagated ==
    (status # "none") =>
        /\ solves = 1
        /\ (status \in {"Infeasible", "Error"} \/ (status = "TimedOut" /\ ~loaded))
              => report # "Optimization complete!"

\* the days on which w is listed
ActiveDays(w) == {d \in Range(days) : Listed(w, d)}

\* C9: in every solved schedule each worker is active on at most 3 of the 7
\* days and total_hours[w] is one of 0, 2, 4, 6.
C9_WorkloadCeiling ==
    Solved =>
        \A w \in Range(workers) :
            /\ Cardinality(ActiveDays(w)) <= 3
            /\ total_hours[w] \in {0, 2, 4, 6}
            /\ total_hours[w] = Len(worker_schedule[w])

\* C9 witness: a worker at the ceiling
C9_Witness ==
    /\ Solved
    /\ \E w \in Range(workers) :
          Cardinality(ActiveDays(w)) = 3 /\ total_hours[w] = 6

\* the all-zero assignment: works = 0, total_hours = 0, needed = 0,
\* deviation = average_hours
ZeroPoint ==
    [works |-> {},
     total_hours |-> [w \in Range(workers) |-> 0],
     needed |-> [w \in Range(workers) |-> 0],
     deviation |-> [w \in Range(workers) |-> Len(stations) * 7 * 2]]

\* C10: for every built model (non-empty workers and stations) the all-zero
\* assignment satisfies every row, and the objective of every solution is at
\* most the number of works variables.
C10_ZeroFeasible ==
    /\ ("constraints" \in model) => Feasible(ZeroPoint)
    /\ Solved => Objective(Values) <= Len(workers) * Cardinality(Cells)

\* C10 witness: the solver hands back the all-zero assignment itself
C10_Witness ==
    /\ Solved
    /\ Values = ZeroPoint

====
